---- MODULE Spec2Model ----
(***************************************************************************)
(* Model of the calibre batch-metadata plugin (src/plugin.py, src/main.py).*)
(*                                                                         *)
(* A title is a sequence of characters.  A character is written as a short *)
(* ASCII name, because the module is ASCII only:                           *)
(*   "di" U+7B2C   "juan" U+5377   "ce" U+518C   "bu" U+90E8  "fen" U+5206 *)
(*   "ling" 0  "yi" 1  "er" 2  "san" 3  "si" 4  "wu" 5  "liu" 6  "qi" 7    *)
(*   "ba" 8  "jiu" 9  "shi" 10  "bai" 100  "qian" 1000  "wan" 10000        *)
(*   "yi_f" .. "wan_f": the formal (banker's) variants of the same values  *)
(*   "ling0" U+3007 "liang" U+4E24 "liang_t" U+5169 "nian20" U+5EFF        *)
(*   "sa30" U+5345 "xi40" U+534C: table entries outside the regex class    *)
(*   keywords: "juan" "ce_t" "ce" "bu" "pian" "ji" "ji4" "qi1" "hua" "hui" *)
(*   "mid" U+00B7  "kmid" U+30FB  "fwtilde" U+FF5E  "fwcolon" U+FF1A       *)
(*   "fw(" U+FF08  "fw)" U+FF09  "lb" U+3010  "rb" U+3011                  *)
(*   "lt" U+3014  "rt" U+3015                                              *)
(*   "hai", "zei", "nian", "a", "b": ordinary title characters             *)
(* Titles contain no newline, so the regex "$" and "." have their plain    *)
(* meaning (end of string, any character).                                 *)
(***************************************************************************)
EXTENDS Integers, Sequences, FiniteSets, TLC

VARIABLES
    title,          \* extract_volume_with_context: the argument
    marker,         \* how the argument was built (stem, separators, form, numeral, tail)
    vres,           \* extract_volume_with_context: the returned pair
    vpc,            \* "ready" before the call, "done" after it
    db,             \* the calibre library: book id -> what get_metadata and
                    \* set_metadata do for it, and the stored metadata
    book_ids,       \* the book_ids argument of the batch functions
    sorted,         \* detect_and_sort_books_by_volume: the returned list
    spc,            \* "ready" before the sort, "done" after it
    new_title_base, \* argument of preview_metadata_changes / batch_update_metadata
    author,         \* argument: the author override
    volume_format,  \* argument: "number" or "chinese"
    previews,       \* preview_metadata_changes: the returned list
    previewed,      \* TRUE once preview_metadata_changes has returned
    flags,          \* the clear_tags / clear_series / clear_publisher arguments
    updated_count,  \* batch_update_metadata: the returned count
    writes,         \* the successful set_metadata calls, in call order
    rpc,            \* "ready", "done" (batch_update_metadata has returned)
    num_n,          \* int_to_chinese: the argument (-1 when a Roman numeral is parsed)
    num_text,       \* the numeral string: int_to_chinese's result, or the
                    \* argument of roman_to_int
    num_val,        \* chinese_to_int / roman_to_int: the returned integer
    npc,            \* "format", "chinese", "roman", "done"
    s1,             \* longest_common_subsequence: first argument
    s2,             \* longest_common_subsequence: second argument
    dp,             \* the filled table, dp[a][b] for a in 0..m, b in 0..n
    li,             \* the index i of the backtracking loop
    lj,             \* the index j of the backtracking loop
    lcs_chars,      \* the characters collected so far (last one first)
    lcs,            \* the returned string
    lpc,            \* "backtrack", "done"
    titles,         \* extract_base_title: the argument; the dialog's self.titles
    base_result,    \* extract_base_title: the result; the dialog's self.base_title
    base_rerun,     \* the result of a second call with the same argument
    bpc,            \* "ready", "once", "twice"
    selected_ids,   \* gui.library_view.get_selected_ids()
    books_dict,     \* self.books_dict: book id -> metadata fetched by the dialog
    valid_book_ids, \* self.valid_book_ids
    books,          \* self.books
    currentRow,     \* self.books_list.currentRow(), 0-based, -1: no current row
    dlg,            \* "none", "open" (set up and shown), "blank" (shown without
                    \* a user interface), "closed"
    exec_called,    \* TRUE once show_dialog has called d.exec_()
    errors          \* the titles of the error dialogs shown, in order

volVars == <<title, marker, vres, vpc>>
sortVars == <<sorted, spc>>
renameVars ==
    <<new_title_base, author, volume_format, previews, previewed, flags,
      updated_count, writes, rpc>>
numVars == <<num_n, num_text, num_val, npc>>
lcsVars == <<s1, s2, dp, li, lj, lcs_chars, lcs, lpc>>
baseVars == <<titles, base_result, base_rerun, bpc>>
dlgVars ==
    <<selected_ids, books_dict, valid_book_ids, books, currentRow, dlg,
      exec_called, errors>>
vars ==
    <<volVars, db, book_ids, sortVars, renameVars, numVars, lcsVars, baseVars,
      dlgVars>>

-----------------------------------------------------------------------------
(* Python values *)

None == <<>>
Some(n) == <<n>>

\* the lists [1, ..., n] and [n, ..., 1]
Ascending(n) == [i \in 1..n |-> i]
Descending(n) == [i \in 1..n |-> n + 1 - i]

Min2(a, b) == IF a < b THEN a ELSE b

\* s[:k] (1-based: the first k characters)
Prefix(s, k) == SubSeq(s, 1, k)

RECURSIVE RStrip(_, _)
\* str.rstrip(chars)
RStrip(s, chars) ==
    IF s # <<>> /\ s[Len(s)] \in chars THEN RStrip(Prefix(s, Len(s) - 1), chars)
    ELSE s

-----------------------------------------------------------------------------
(* Character classes of the regular expressions of extract_volume_with_context *)

Digits == {"0", "1", "2", "3", "4", "5", "6", "7", "8", "9"}

ChineseClass ==
    {"ling", "yi", "er", "san", "si", "wu", "liu", "qi", "ba", "jiu",
     "shi", "bai", "qian", "wan",
     "yi_f", "er_f", "san_f", "si_f", "wu_f", "liu_f", "qi_f", "ba_f", "jiu_f",
     "shi_f", "bai_f", "qian_f", "wan_f"}

RomanUpper == {"I", "V", "X", "L", "C", "D", "M"}
RomanLower == {"i", "v", "x", "l", "c", "d", "m"}

\* VOLUME_KEYWORDS (the ten keyword characters, in the order of the list)
VOLUME_KEYWORDS ==
    {"juan", "ce_t", "ce", "bu", "pian", "ji", "ji4", "qi1", "hua", "hui"}

\* \s of the regexes and the default str.strip() set, within the alphabet
Whitespace == {" "}

\* Every character of the model's alphabet ('.' of the regexes)
AnyChar ==
    Digits \cup ChineseClass \cup RomanUpper \cup RomanLower \cup VOLUME_KEYWORDS
    \cup {"di", "fen", "ling0", "liang", "liang_t", "nian20", "sa30", "xi40",
          " ", "-", "_", "mid", "kmid", "~", "fwtilde", ":", "fwcolon",
          "(", ")", "fw(", "fw)", "lb", "rb", "lt", "rt",
          "hai", "zei", "nian", "a", "b"}

\* [...\dIVXLCDM] without and with re.IGNORECASE, and the class without Roman
NumClass == ChineseClass \cup Digits \cup RomanUpper
NumClassI == NumClass \cup RomanLower
NumClassNoRoman == ChineseClass \cup Digits

-----------------------------------------------------------------------------
(* A backtracking matcher for the regex fragment the patterns use: a       *)
(* sequence of quantified character classes followed by "$".               *)
(*   cls: the class, min: 0 or 1, many: unbounded repetition,              *)
(*   lazy: non-greedy, grp: the item is capture group 1                    *)

Item(cls, min, many, lazy, grp) ==
    [cls |-> cls, min |-> min, many |-> many, lazy |-> lazy, grp |-> grp]

One(cls) == Item(cls, 1, FALSE, FALSE, FALSE)
Opt(cls) == Item(cls, 0, FALSE, FALSE, FALSE)
Plus(cls) == Item(cls, 1, TRUE, FALSE, FALSE)
Group(cls) == Item(cls, 1, TRUE, FALSE, TRUE)
LazyStar(cls) == Item(cls, 0, TRUE, TRUE, FALSE)

RECURSIVE RunLen(_, _, _)
\* number of consecutive characters of s from position pos that are in cls
RunLen(s, pos, cls) ==
    IF pos <= Len(s) /\ s[pos] \in cls THEN 1 + RunLen(s, pos + 1, cls) ELSE 0

RECURSIVE MatchFrom(_, _, _, _, _)
RECURSIVE TryCounts(_, _, _, _, _, _, _)

\* Match items k.. of pat at position pos; g is the span of group 1 so far.
\* <<>> when there is no match, <<g>> for the first match in priority order.
MatchFrom(pat, k, s, pos, g) ==
    IF k > Len(pat) THEN (IF pos = Len(s) + 1 THEN <<g>> ELSE <<>>)
    ELSE LET it == pat[k]
             avail == RunLen(s, pos, it.cls)
             hi == IF it.many THEN avail ELSE Min2(avail, 1)
         IN IF hi < it.min THEN <<>>
            ELSE TryCounts(pat, k, s, pos, g, IF it.lazy THEN it.min ELSE hi, hi)

TryCounts(pat, k, s, pos, g, n, hi) ==
    LET it == pat[k]
        g2 == IF it.grp THEN <<pos, pos + n - 1>> ELSE g
        r == MatchFrom(pat, k + 1, s, pos + n, g2)
    IN IF r # <<>> THEN r
       ELSE IF it.lazy
            THEN (IF n + 1 > hi THEN <<>> ELSE TryCounts(pat, k, s, pos, g, n + 1, hi))
            ELSE (IF n - 1 < it.min THEN <<>> ELSE TryCounts(pat, k, s, pos, g, n - 1, hi))

RECURSIVE SearchFrom(_, _, _)
\* re.search: the leftmost start with a match
SearchFrom(pat, s, start) ==
    IF start > Len(s) + 1 THEN None
    ELSE LET r == MatchFrom(pat, 1, s, start, <<0, 0>>)
         IN IF r # <<>>
            THEN Some([start |-> start, group1 |-> SubSeq(s, r[1][1], r[1][2])])
            ELSE SearchFrom(pat, s, start + 1)

re_search(pat, s) == SearchFrom(pat, s, 1)

-----------------------------------------------------------------------------
(* Numeral conversion *)

\* CHINESE_NUMBERS: keys are strings (one character, or the two-character
\* entries 11..20)
ChinesePairs ==
    { <<<<"ling">>, 0>>, <<<<"ling0">>, 0>>, <<<<"yi">>, 1>>, <<<<"yi_f">>, 1>>,
      <<<<"er">>, 2>>, <<<<"er_f">>, 2>>, <<<<"liang_t">>, 2>>, <<<<"liang">>, 2>>,
      <<<<"san">>, 3>>, <<<<"san_f">>, 3>>, <<<<"si">>, 4>>, <<<<"si_f">>, 4>>,
      <<<<"wu">>, 5>>, <<<<"wu_f">>, 5>>,
      <<<<"liu">>, 6>>, <<<<"liu_f">>, 6>>, <<<<"qi">>, 7>>, <<<<"qi_f">>, 7>>,
      <<<<"ba">>, 8>>, <<<<"ba_f">>, 8>>,
      <<<<"jiu">>, 9>>, <<<<"jiu_f">>, 9>>, <<<<"shi">>, 10>>, <<<<"shi_f">>, 10>>,
      <<<<"shi", "yi">>, 11>>, <<<<"shi", "er">>, 12>>, <<<<"shi", "san">>, 13>>,
      <<<<"shi", "si">>, 14>>, <<<<"shi", "wu">>, 15>>,
      <<<<"shi", "liu">>, 16>>, <<<<"shi", "qi">>, 17>>, <<<<"shi", "ba">>, 18>>,
      <<<<"shi", "jiu">>, 19>>,
      <<<<"er", "shi">>, 20>>, <<<<"nian20">>, 20>>, <<<<"sa30">>, 30>>,
      <<<<"xi40">>, 40>>,
      <<<<"bai">>, 100>>, <<<<"bai_f">>, 100>>, <<<<"qian">>, 1000>>,
      <<<<"qian_f">>, 1000>>, <<<<"wan">>, 10000>>, <<<<"wan_f">>, 10000>> }

CHINESE_NUMBERS ==
    [k \in {p[1] : p \in ChinesePairs} |->
        (CHOOSE p \in ChinesePairs : p[1] = k)[2]]

DigitValue ==
    [c \in Digits |->
        CASE c = "0" -> 0 [] c = "1" -> 1 [] c = "2" -> 2 [] c = "3" -> 3
          [] c = "4" -> 4 [] c = "5" -> 5 [] c = "6" -> 6 [] c = "7" -> 7
          [] c = "8" -> 8 [] c = "9" -> 9]

\* str.isdigit()
IsDigit(s) == s # <<>> /\ \A k \in 1..Len(s) : s[k] \in Digits

RECURSIVE IntOf(_)
\* int(s) for a string of decimal digits
IntOf(s) ==
    IF s = <<>> THEN 0
    ELSE 10 * IntOf(Prefix(s, Len(s) - 1)) + DigitValue[s[Len(s)]]

\* str.upper(), one character
UpperChar(c) ==
    CASE c = "i" -> "I" [] c = "v" -> "V" [] c = "x" -> "X" [] c = "l" -> "L"
      [] c = "c" -> "C" [] c = "d" -> "D" [] c = "m" -> "M"
      [] c = "a" -> "A" [] c = "b" -> "B" [] OTHER -> c

Upper(s) == [k \in 1..Len(s) |-> UpperChar(s[k])]

\* str.strip()
Strip(s) ==
    LET lead == RunLen(s, 1, Whitespace)
    IN RStrip(SubSeq(s, lead + 1, Len(s)), Whitespace)

\* roman_dict.get(char, 0)
RomanValue(c) ==
    CASE c = "I" -> 1 [] c = "V" -> 5 [] c = "X" -> 10 [] c = "L" -> 50
      [] c = "C" -> 100 [] c = "D" -> 500 [] c = "M" -> 1000 [] OTHER -> 0

RECURSIVE RomanScanNonStrict(_, _, _, _)
\* the loop with "<=" in place of "<"
RomanScanNonStrict(r, k, result, prev_value) ==
    IF k = 0 THEN result
    ELSE LET value == RomanValue(r[k])
         IN RomanScanNonStrict(r, k - 1,
                      IF value <= prev_value THEN result - value ELSE result + value,
                      value)

RECURSIVE RomanScan(_, _, _, _)
\* the loop of roman_to_int over reversed(roman): k runs from Len down to 1
RomanScan(r, k, result, prev_value) ==
    IF k = 0 THEN result
    ELSE LET value == RomanValue(r[k])
         IN RomanScan(r, k - 1,
                      IF value < prev_value THEN result - value ELSE result + value,
                      value)

roman_to_int(roman) == RomanScan(Upper(roman), Len(roman), 0, 0)

RECURSIVE ChineseScan(_, _, _, _)
\* the loop of chinese_to_int; returns result + temp when it ends or breaks
ChineseScan(s, k, result, temp) ==
    IF k > Len(s) THEN result + temp
    ELSE IF <<s[k]>> \in DOMAIN CHINESE_NUMBERS
         THEN LET num == CHINESE_NUMBERS[<<s[k]>>]
              IN IF num >= 10
                 THEN ChineseScan(s, k + 1,
                                  result + (IF temp = 0 THEN 1 ELSE temp) * num, 0)
                 ELSE ChineseScan(s, k + 1, result, num)
         ELSE result + temp

chinese_to_int(chinese_num) ==
    IF chinese_num = <<>> THEN 0
    ELSE IF chinese_num \in DOMAIN CHINESE_NUMBERS THEN CHINESE_NUMBERS[chinese_num]
    ELSE ChineseScan(chinese_num, 1, 0, 0)

\* parse_volume_number: None or Some(int)
parse_volume_number(volume_str0) ==
    IF volume_str0 = <<>> THEN None
    ELSE LET volume_str == Strip(volume_str0)
             up == Upper(volume_str)
         IN IF IsDigit(volume_str) THEN Some(IntOf(volume_str))
            ELSE IF up # <<>> /\ \A k \in 1..Len(up) : up[k] \in RomanUpper
                 THEN Some(roman_to_int(up))
                 ELSE Some(chinese_to_int(volume_str))

-----------------------------------------------------------------------------
(* extract_volume_with_context *)

\* a strip set that also takes the tilde and the colon
StripCharsWide == {" ", "-", "_", "mid", "kmid", "~", ":"}

\* the characters of rstrip(' -_..') at the three return sites
StripChars == {" ", "-", "_", "mid", "kmid"}

pattern1 ==
    << One({"di"}), Group(NumClass), One(VOLUME_KEYWORDS), LazyStar(AnyChar) >>

\* the five patterns of the list, as searched with re.IGNORECASE
patterns ==
    << << Plus({"-", "_"} \cup Whitespace), Group(NumClassI), Opt(VOLUME_KEYWORDS) >>,
       << One({"fw(", "("}), Group(NumClassI), Opt(VOLUME_KEYWORDS),
          One({"fw)", ")"}) >>,
       << One({"lb", "lt"}), Group(NumClassI), Opt(VOLUME_KEYWORDS),
          One({"rb", "rt"}) >>,
       << One({"v", "V"}), Group(NumClassNoRoman) >>,
       << One({"di"}), Group(NumClassNoRoman), One({"bu"}), One({"fen"}) >> >>

pattern3 == << Group(Digits) >>

\* the length guard of the bare-digit rule
MaxBareDigits == 4

Result(base_title, volume) == [title |-> base_title, volume |-> volume]

\* the body shared by the rules: parse group 1, strip the part before the match
RuleResult(t, m) ==
    LET volume == parse_volume_number(m[1].group1)
    IN IF volume # None
       THEN Some(Result(RStrip(Prefix(t, m[1].start - 1), StripChars), volume))
       ELSE None

\* rule 3 without the length guard
BareDigitsNoGuard(t) ==
    LET m == re_search(pattern3, t)
    IN IF m # None
       THEN Result(RStrip(Prefix(t, m[1].start - 1), StripChars),
                   Some(IntOf(m[1].group1)))
       ELSE Result(t, None)

\* rule 3 and the final return
BareDigits(t) ==
    LET m == re_search(pattern3, t)
    IN IF m # None /\ Len(m[1].group1) <= MaxBareDigits
       THEN Result(RStrip(Prefix(t, m[1].start - 1), StripChars),
                   Some(IntOf(m[1].group1)))
       ELSE Result(t, None)

RECURSIVE PatternLoop(_, _)
\* for pattern in patterns: ... ; then rule 3
PatternLoop(t, k) ==
    IF k > Len(patterns) THEN BareDigits(t)
    ELSE LET m == re_search(patterns[k], t)
             r == IF m # None THEN RuleResult(t, m) ELSE None
         IN IF r # None THEN r[1] ELSE PatternLoop(t, k + 1)

extract_volume_with_context(t) ==
    LET m == re_search(pattern1, t)
        r == IF m # None THEN RuleResult(t, m) ELSE None
    IN IF r # None THEN r[1] ELSE PatternLoop(t, 1)

-----------------------------------------------------------------------------
(* Inputs of the volume extractor: titles built as                         *)
(*   stem + separators + marker + tail                                     *)
(* where the marker is a numeral in one of the forms the rules look for.   *)

\* longest run of separator characters between stem and marker
MaxSepLen == 2
\* longest Arabic numeral (the bare-digit guard is MaxBareDigits)
MaxDigitRun == 5

Num(text, val, sys) == [text |-> text, val |-> val, sys |-> sys]

RECURSIVE Pow10(_)
Pow10(k) == IF k = 0 THEN 1 ELSE 10 * Pow10(k - 1)

RECURSIVE DecimalValue(_)
\* the value a string of decimal digits denotes (most significant digit first)
DecimalValue(s) ==
    IF s = <<>> THEN 0
    ELSE DigitValue[Head(s)] * Pow10(Len(s) - 1) + DecimalValue(Tail(s))

DigitRun(k) == [j \in 1..k |-> <<"1", "2", "3", "4", "5", "6", "7", "8", "9">>[j]]

ArabicNumerals ==
    { Num(DigitRun(k), DecimalValue(DigitRun(k)), "arabic") : k \in 1..MaxDigitRun }
    \cup { Num(<<"0", "0", "7">>, 7, "arabic"), Num(<<"2", "0", "2", "4">>, 2024, "arabic") }

\* Chinese numerals with the value they denote
ChineseNumerals ==
    { Num(<<"ling">>, 0, "chinese"), Num(<<"san">>, 3, "chinese"),
      Num(<<"shi">>, 10, "chinese"), Num(<<"shi", "er">>, 12, "chinese"),
      Num(<<"er", "shi">>, 20, "chinese"), Num(<<"er", "shi", "san">>, 23, "chinese"),
      Num(<<"er_f", "shi_f">>, 20, "chinese"),
      Num(<<"yi", "bai">>, 100, "chinese"),
      Num(<<"yi", "bai", "ling", "wu">>, 105, "chinese"),
      Num(<<"san", "qian">>, 3000, "chinese"),
      Num(<<"yi", "wan">>, 10000, "chinese"),
      Num(<<"shi", "wan">>, 100000, "chinese") }

\* Roman numerals with the value they denote
RomanNumerals ==
    { Num(<<"I">>, 1, "roman"), Num(<<"I", "V">>, 4, "roman"),
      Num(<<"I", "X">>, 9, "roman"), Num(<<"X", "I", "I">>, 12, "roman"),
      Num(<<"X", "L">>, 40, "roman"),
      Num(<<"M", "C", "M", "X", "C", "I", "V">>, 1994, "roman") }

\* strings of numeral characters that are no numeral of any system
OtherStrings ==
    { Num(<<"3", "X">>, -1, "mixed"), Num(<<"X", "3">>, -1, "mixed"),
      Num(<<"san", "3">>, -1, "mixed"), Num(<<"i", "v">>, 4, "lower") }

Numerals == ArabicNumerals \cup ChineseNumerals \cup RomanNumerals \cup OtherStrings

Forms ==
    {"di_juan", "di_ce", "bare", "bare_juan", "paren", "fwparen_juan", "bracket",
     "v", "V", "di_bufen"}

MarkerText(form, n) ==
    CASE form = "di_juan" -> <<"di">> \o n \o <<"juan">>
      [] form = "di_ce" -> <<"di">> \o n \o <<"ce">>
      [] form = "bare" -> n
      [] form = "bare_juan" -> n \o <<"juan">>
      [] form = "paren" -> <<"(">> \o n \o <<")">>
      [] form = "fwparen_juan" -> <<"fw(">> \o n \o <<"juan", "fw)">>
      [] form = "bracket" -> <<"lb">> \o n \o <<"rb">>
      [] form = "v" -> <<"v">> \o n
      [] form = "V" -> <<"V">> \o n
      [] form = "di_bufen" -> <<"di">> \o n \o <<"bu", "fen">>
      [] form = "none" -> <<>>

SepChars == {" ", "-", "_", "mid", "kmid", "~", "fwtilde", ":", "fwcolon"}
SepCore == {" ", "-", "~"}

Seps ==
    {<<>>} \cup { <<c>> : c \in SepChars }
    \cup UNION { [1..k -> SepCore] : k \in 2..MaxSepLen }

Stems == { <<>>, <<"hai", "zei">> }
Tails == { <<>>, <<"nian", "a">>, <<" ", "b">> }

VolInputs ==
    [stem : Stems, sep : Seps, form : Forms, num : Numerals, tail : Tails]
    \cup [stem : Stems, sep : Seps, form : {"none"}, num : {Num(<<>>, -1, "none")},
          tail : Tails]

Compose(in) == in.stem \o in.sep \o MarkerText(in.form, in.num.text) \o in.tail

-----------------------------------------------------------------------------
(* Formatting of sequence numbers *)

DigitChars == <<"0", "1", "2", "3", "4", "5", "6", "7", "8", "9">>

RECURSIVE Str(_)
\* str(n) for n >= 0
Str(n) ==
    IF n < 10 THEN <<DigitChars[n + 1]>>
    ELSE Str(n \div 10) \o <<DigitChars[(n % 10) + 1]>>

\* f"{i:0{digits}d}"
ZeroPad(i, digits) ==
    LET str == Str(i)
    IN IF Len(str) >= digits THEN str
       ELSE [k \in 1..(digits - Len(str)) |-> "0"] \o str

chinese_digits == <<"ling", "yi", "er", "san", "si", "wu", "liu", "qi", "ba", "jiu">>

\* a formatter that writes the tens digit without the unit character
int_to_chinese_positional(num) ==
    IF num <= 0 THEN <<"ling">>
    ELSE IF num < 10 THEN <<chinese_digits[num + 1]>>
    ELSE IF num < 100
         THEN <<chinese_digits[(num \div 10) + 1], chinese_digits[(num % 10) + 1]>>
    ELSE Str(num)

int_to_chinese(num) ==
    IF num <= 0 THEN <<"ling">>
    ELSE IF num < 10 THEN <<chinese_digits[num + 1]>>
    ELSE IF num < 20
         THEN (IF num = 10 THEN <<"shi">> ELSE <<"shi", chinese_digits[(num % 10) + 1]>>)
    ELSE IF num < 100
         THEN (IF num % 10 = 0
               THEN <<chinese_digits[(num \div 10) + 1], "shi">>
               ELSE <<chinese_digits[(num \div 10) + 1], "shi",
                      chinese_digits[(num % 10) + 1]>>)
    ELSE Str(num)

\* a digit count that never goes below two
BatchDigitsTwo(total_books) == IF total_books < 100 THEN 2 ELSE 3

\* batch_update_metadata: digits = 1 if total < 10 else 2 if total < 100 else 3
BatchDigits(total_books) ==
    IF total_books < 10 THEN 1 ELSE IF total_books < 100 THEN 2 ELSE 3

RECURSIVE CeilLog10From(_, _)
\* the least d >= d0 with 10^d >= x
CeilLog10From(x, d) == IF Pow10(d) >= x THEN d ELSE CeilLog10From(x, d + 1)

\* the digit count without the "+ 1"
PreviewDigitsOfTotal(total_books) == CeilLog10From(total_books, 0)

\* preview_metadata_changes: digits = math.ceil(math.log10(total_books + 1))
PreviewDigits(total_books) == CeilLog10From(total_books + 1, 0)

ChineseSuffix(i) == <<"di">> \o int_to_chinese(i) \o <<"juan">>

BatchSuffix(i, total_books, fmt) ==
    IF fmt = "chinese" THEN ChineseSuffix(i)
    ELSE ZeroPad(i, BatchDigits(total_books))

PreviewSuffix(i, total_books, fmt) ==
    IF fmt = "chinese" THEN ChineseSuffix(i)
    ELSE ZeroPad(i, PreviewDigits(total_books))

-----------------------------------------------------------------------------
(* The library.  db[id] says what the two calibre calls do for the book:  *)
(*   fetch: get_metadata returns the metadata ("ok"), returns an empty     *)
(*          value ("none") or raises ("raise");                            *)
(*   set_raises: set_metadata raises;                                      *)
(*   mi: the stored metadata.                                              *)

Metadata(t, au, sau, st, co, tg, se, si, pu, ex) ==
    [title |-> t, authors |-> au, sort_authors |-> sau, sort_title |-> st,
     comments |-> co, tags |-> tg, series |-> se, series_index |-> si,
     publisher |-> pu, extras |-> ex]

\* the metadata a book has before any rename; it differs from book to book
OrigMi(id, t) ==
    Metadata(t, << <<"a">> \o Str(id) >>, << <<"a">> \o Str(id), <<"b">> >>,
             IF id % 2 = 0 THEN <<>> ELSE <<"hai">> \o Str(id),
             <<"zei">>, << <<"b">> \o Str(id) >>, <<"hai">>, Str(id),
             <<"nian">> \o Str(id), Str(id))

Entry(fetch, set_raises, mi) == [fetch |-> fetch, set_raises |-> set_raises, mi |-> mi]

\* what one book can do: fetched and written, fetched but the write raises,
\* fetched empty, fetch raises
Outcomes ==
    { [fetch |-> "ok", set_raises |-> FALSE], [fetch |-> "ok", set_raises |-> TRUE],
      [fetch |-> "none", set_raises |-> FALSE], [fetch |-> "raise", set_raises |-> FALSE] }

OkOutcome == [fetch |-> "ok", set_raises |-> FALSE]

-----------------------------------------------------------------------------
(* detect_and_sort_books_by_volume *)

\* volume or 0
OrZero(volume) == IF volume = None THEN 0 ELSE volume[1]

RECURSIVE CollectVolumes(_, _, _)
\* the first loop: one (book_id, volume) pair per book, unless the metadata
\* comes back empty
CollectVolumes(d, ids, k) ==
    IF k > Len(ids) THEN <<>>
    ELSE LET book_id == ids[k]
             rest == CollectVolumes(d, ids, k + 1)
         IN CASE d[book_id].fetch = "raise" -> << <<book_id, 0>> >> \o rest
              [] d[book_id].fetch = "none" -> rest
              [] OTHER ->
                   << <<book_id,
                        OrZero(extract_volume_with_context(d[book_id].mi.title).volume)>> >>
                   \o rest

RECURSIVE InsertByKey(_, _)
\* insert x behind every element whose key is not larger
InsertByKey(seq, x) ==
    IF seq = <<>> THEN <<x>>
    ELSE IF seq[Len(seq)][2] <= x[2] THEN Append(seq, x)
    ELSE Append(InsertByKey(Prefix(seq, Len(seq) - 1), x), seq[Len(seq)])

RECURSIVE SortByVolume(_)
\* list.sort(key=lambda x: x[1]): ascending and stable
SortByVolume(seq) ==
    IF seq = <<>> THEN <<>>
    ELSE InsertByKey(SortByVolume(Prefix(seq, Len(seq) - 1)), seq[Len(seq)])

detect_and_sort_books_by_volume(d, ids) == SortByVolume(CollectVolumes(d, ids, 1))

-----------------------------------------------------------------------------
(* batch_update_metadata *)

\* the metadata object with the author override written unconditionally
NewMiOverwrite(mi, new_title, auth, clear_tags, clear_series, clear_publisher) ==
    Metadata(
        new_title,
        IF Strip(auth) = <<>> THEN <<>> ELSE <<Strip(auth)>>,
        IF Strip(auth) = <<>> THEN <<>> ELSE <<Strip(auth)>>,
        IF mi.sort_title # <<>> THEN mi.sort_title ELSE new_title,
        mi.comments,
        IF clear_tags THEN <<>> ELSE mi.tags,
        IF clear_series THEN <<>> ELSE mi.series,
        IF clear_series THEN <<>> ELSE mi.series_index,
        IF clear_publisher THEN mi.publisher ELSE <<>>,
        mi.extras)

\* the metadata object built for one book (steps 1 - 5 of the loop body)
NewMi(mi, new_title, auth, clear_tags, clear_series, clear_publisher) ==
    LET keep == Strip(auth) = <<>>
    IN Metadata(
        new_title,
        IF keep THEN mi.authors ELSE <<Strip(auth)>>,
        IF keep THEN mi.sort_authors ELSE <<Strip(auth)>>,
        IF mi.sort_title # <<>> THEN mi.sort_title ELSE new_title,
        mi.comments,
        IF clear_tags THEN <<>> ELSE mi.tags,
        IF clear_series THEN <<>> ELSE mi.series,
        IF clear_series THEN <<>> ELSE mi.series_index,
        IF clear_publisher THEN mi.publisher ELSE <<>>,
        mi.extras)

\* db.set_metadata(book_id, new_mi, force_changes=True), when it does not raise
\* as it changes the entry of the book
SetMetadata(entry, new_mi) == [entry EXCEPT !.mi = new_mi]

\* a loop that stops at the first pass that fails
BatchItemAborting(d, ids, i, base, auth, fl, fmt) ==
    IF \E k \in 1..i : d[ids[k]].fetch # "ok" \/ d[ids[k]].set_raises THEN None
    ELSE Some(NewMi(d[ids[i]].mi, base \o BatchSuffix(i, Len(ids), fmt), auth,
                    fl.clear_tags, fl.clear_series, fl.clear_publisher))

\* One pass of the loop body for position i (1-based): None when the pass
\* ends in "continue" or in the except clause, Some(new_mi) when set_metadata
\* returned.
BatchItem(d, ids, i, base, auth, fl, fmt) ==
    LET e == d[ids[i]]
        new_title == base \o BatchSuffix(i, Len(ids), fmt)
    IN IF e.fetch # "ok" \/ e.set_raises THEN None
       ELSE Some(NewMi(e.mi, new_title, auth, fl.clear_tags, fl.clear_series,
                       fl.clear_publisher))

\* for i, book_id in enumerate(book_ids, 1): ...; return updated_count
\* The ids of a selection are distinct, so no pass reads metadata that an
\* earlier pass wrote.  Returns the library after the calls, the count and
\* the successful set_metadata calls in order.
batch_update_metadata(d, ids, base, auth, fl, fmt) ==
    LET done == SelectSeq(Ascending(Len(ids)),
                          LAMBDA i : BatchItem(d, ids, i, base, auth, fl, fmt) # None)
        calls == [k \in 1..Len(done) |->
                    [book_id |-> ids[done[k]],
                     mi |-> BatchItem(d, ids, done[k], base, auth, fl, fmt)[1]]]
        written == {calls[k].book_id : k \in 1..Len(calls)}
    IN [db |-> [id \in DOMAIN d |->
                  IF id \in written
                  THEN SetMetadata(d[id],
                          calls[CHOOSE k \in 1..Len(calls) : calls[k].book_id = id].mi)
                  ELSE d[id]],
        updated_count |-> Len(done),
        writes |-> calls]

-----------------------------------------------------------------------------
(* preview_metadata_changes *)

\* books_data in ascending order of the ids instead of the order given
BooksDataById(d, ids) ==
    SelectSeq(Ascending(Len(ids)),
              LAMBDA book_id : \E k \in 1..Len(ids) : ids[k] = book_id /\ d[book_id].fetch = "ok")

\* the first loop: books_data holds the books whose metadata came back
BooksData(d, ids) == SelectSeq(ids, LAMBDA book_id : d[book_id].fetch = "ok")

PreviewEntry(d, books_data, i, base, auth, fmt) ==
    [book_id |-> books_data[i],
     old_title |-> d[books_data[i]].mi.title,
     new_title |-> base \o PreviewSuffix(i, Len(books_data), fmt),
     old_authors |-> d[books_data[i]].mi.authors,
     new_author |-> auth,
     index |-> i]

preview_metadata_changes(d, ids, base, auth, fmt) ==
    LET books_data == BooksData(d, ids)
    IN [i \in 1..Len(books_data) |-> PreviewEntry(d, books_data, i, base, auth, fmt)]

-----------------------------------------------------------------------------
(* longest_common_subsequence *)

Max2(a, b) == IF a > b THEN a ELSE b

\* an assignment  x = v  followed by the code F that reads x: v is evaluated
\* once, as the assignment evaluates it
Bind(v, F(_)) == CHOOSE r \in { F(x) : x \in {v} } : TRUE

RECURSIVE FillRow(_, _, _, _, _)
\* the inner loop of the table fill for row x: row holds dp[x][0..y-1]
\* (dp[x][y] is kept at position y + 1), prev is the row x - 1
FillRow(a, b, x, prev, row) ==
    LET y == Len(row)
    IN IF y > Len(b) THEN row
       ELSE Bind(Append(row, IF a[x] = b[y]
                             THEN prev[y] + 1
                             ELSE Max2(prev[y + 1], row[y])),
                 LAMBDA longer : FillRow(a, b, x, prev, longer))

RECURSIVE FillTable(_, _, _)
\* the outer loop of the table fill: rows holds the rows 0 .. x - 1
FillTable(a, b, rows) ==
    LET x == Len(rows)
    IN IF x > Len(a) THEN rows
       ELSE Bind(Append(rows, FillRow(a, b, x, rows[x], <<0>>)),
                 LAMBDA longer : FillTable(a, b, longer))

\* dp after the fill, as dp[x][y] for x in 0..m and y in 0..n
DpTable(a, b) ==
    Bind(FillTable(a, b, << [y \in 1..(Len(b) + 1) |-> 0] >>),
         LAMBDA rows : [x \in 0..Len(a) |-> [y \in 0..Len(b) |-> rows[x + 1][y + 1]]])

\* one iteration of the backtracking loop that steps to the first string's
\* previous character when the two neighbouring cells are equal
BacktrackStepTieFirst(a, b, table, st) ==
    IF a[st.i] = b[st.j]
    THEN [i |-> st.i - 1, j |-> st.j - 1, lcs_chars |-> Append(st.lcs_chars, a[st.i])]
    ELSE IF table[st.i - 1][st.j] >= table[st.i][st.j - 1]
         THEN [st EXCEPT !.i = @ - 1]
         ELSE [st EXCEPT !.j = @ - 1]

\* one iteration of the backtracking loop (while i > 0 and j > 0)
BacktrackStep(a, b, table, st) ==
    IF a[st.i] = b[st.j]
    THEN [i |-> st.i - 1, j |-> st.j - 1, lcs_chars |-> Append(st.lcs_chars, a[st.i])]
    ELSE IF table[st.i - 1][st.j] > table[st.i][st.j - 1]
         THEN [st EXCEPT !.i = @ - 1]
         ELSE [st EXCEPT !.j = @ - 1]

RECURSIVE Backtrack(_, _, _, _)
Backtrack(a, b, table, st) ==
    IF st.i > 0 /\ st.j > 0
    THEN Bind(BacktrackStep(a, b, table, st), LAMBDA next : Backtrack(a, b, table, next))
    ELSE st

\* reversed(seq)
Reverse(seq) == [k \in 1..Len(seq) |-> seq[Len(seq) + 1 - k]]

longest_common_subsequence(a, b) ==
    Bind(DpTable(a, b),
         LAMBDA table :
            Bind(Backtrack(a, b, table, [i |-> Len(a), j |-> Len(b), lcs_chars |-> <<>>]),
                 LAMBDA st : Reverse(st.lcs_chars)))

RECURSIVE LcsFold(_, _, _)
\* the loop of find_longest_common_subsequence over titles[1:]
LcsFold(ts, k, acc) ==
    IF k > Len(ts) THEN (IF Len(acc) >= 5 THEN Some(acc) ELSE None)
    ELSE Bind(longest_common_subsequence(acc, ts[k]),
              LAMBDA next : IF next = <<>> THEN None ELSE LcsFold(ts, k + 1, next))

\* None or Some(string)
find_longest_common_subsequence(ts) ==
    IF ts = <<>> THEN None ELSE LcsFold(ts, 2, ts[1])

-----------------------------------------------------------------------------
(* extract_base_title *)

\* word_boundaries of trim_to_word_boundary (the set literal names U+00B7
\* twice, so it has nine members)
word_boundaries == {" ", "-", "_", "mid", "~", "fwtilde", ":", "fwcolon", "kmid"}

trim_to_word_boundary(text) ==
    LET hits == {k \in 1..Len(text) : text[k] \in word_boundaries}
    IN IF hits = {} THEN text
       ELSE LET last == CHOOSE k \in hits : \A h \in hits : h <= k
            IN RStrip(Prefix(text, last - 1), Whitespace)

\* os.path.commonprefix: the common prefix of the smallest and the largest
\* string of the list, which is the longest prefix all strings share
commonprefix(m) ==
    IF m = <<>> THEN <<>>
    ELSE LET shared == {k \in 0..Len(m[1]) :
                           \A x \in 1..Len(m) :
                               Len(m[x]) >= k /\ Prefix(m[x], k) = Prefix(m[1], k)}
         IN Prefix(m[1], CHOOSE k \in shared : \A h \in shared : h <= k)

\* the characters of the alphabet matched by [^\u4e00-\u9fff\w]
NonWordChars ==
    {" ", "-", "mid", "kmid", "~", "fwtilde", ":", "fwcolon",
     "(", ")", "fw(", "fw)", "lb", "rb", "lt", "rt"}

\* set(w for w in re.split(r'[^\u4e00-\u9fff\w]+', t) if len(w) >= 2)
Words(t) ==
    { SubSeq(t, a, b) : <<a, b>> \in
        { p \in (1..Len(t)) \X (1..Len(t)) :
            /\ p[2] - p[1] + 1 >= 2
            /\ \A k \in p[1]..p[2] : t[k] \notin NonWordChars
            /\ (p[1] = 1 \/ t[p[1] - 1] \in NonWordChars)
            /\ (p[2] = Len(t) \/ t[p[2] + 1] \in NonWordChars) } }

\* common_words after the intersections
CommonWordSet(ts) == { w \in Words(ts[1]) : \A k \in 1..Len(ts) : w \in Words(ts[k]) }

\* sorted(common_words, key=len, reverse=True): the sort is stable, so words
\* of equal length stay in the iteration order of the set, which the hash
\* values of the strings decide; every order is possible
find_common_words(ts) ==
    IF ts = <<>> THEN { <<>> }
    ELSE Bind(CommonWordSet(ts),
              LAMBDA S :
                { q \in [1..Cardinality(S) -> S] :
                    /\ \A x, y \in 1..Cardinality(S) : x # y => q[x] # q[y]
                    /\ \A x, y \in 1..Cardinality(S) : x < y => Len(q[x]) >= Len(q[y]) })

RECURSIVE Join(_)
\* ' '.join(words)
Join(ws) ==
    IF ws = <<>> THEN <<>>
    ELSE IF Len(ws) = 1 THEN ws[1]
    ELSE ws[1] \o <<" ">> \o Join(Tail(ws))

\* Counter(ts).most_common(1)[0][0]: the first inserted of the most frequent
most_common(ts) ==
    LET count(x) == Cardinality({k \in 1..Len(ts) : ts[k] = x})
        best == {k \in 1..Len(ts) : \A h \in 1..Len(ts) : count(ts[h]) <= count(ts[k])}
    IN ts[CHOOSE k \in best : \A h \in best : k <= h]

RECURSIVE Simplify(_, _)
\* the first loop of extract_base_title, from title k on
Simplify(ts, k) ==
    IF k > Len(ts) THEN <<>>
    ELSE Bind(extract_volume_with_context(ts[k]).title,
              LAMBDA simplified :
                (IF simplified # <<>> THEN <<Strip(simplified)>> ELSE <<>>)
                \o Simplify(ts, k + 1))

\* the set of strings extract_base_title can return for the list ts
extract_base_title(ts) ==
    IF ts = <<>> THEN { <<>> }
    ELSE
    Bind(Simplify(ts, 1), LAMBDA simplified0 :
    Bind(IF simplified0 = <<>> THEN ts ELSE simplified0, LAMBDA simplified_titles :
    IF Len(simplified_titles) = 1 THEN { simplified_titles[1] }
    ELSE
    Bind(commonprefix(simplified_titles), LAMBDA common_prefix :
    Bind(trim_to_word_boundary(common_prefix), LAMBDA trimmed :
    IF Len(common_prefix) >= 3 /\ Len(trimmed) >= 3 THEN { trimmed }
    ELSE
    Bind(find_longest_common_subsequence(simplified_titles), LAMBDA lcs_result :
    IF lcs_result # None /\ Len(lcs_result[1]) >= 5 THEN { lcs_result[1] }
    ELSE
    Bind(find_common_words(simplified_titles), LAMBDA common_words :
    IF common_words # { <<>> } THEN { Join(ws) : ws \in common_words }
    ELSE { most_common(simplified_titles) }))))))

-----------------------------------------------------------------------------
(* BatchEditMetadataDialog (src/main.py) and show_dialog (src/ui.py) *)

\* the 1-based position a Python list index denotes in a list of n items
PyIndex(index, n) == (IF index < 0 THEN index + n ELSE index) + 1

\* lst[index1], lst[index2] = lst[index2], lst[index1]
SwapList(lst, index1, index2) ==
    LET p == PyIndex(index1, Len(lst))
        q == PyIndex(index2, Len(lst))
    IN [lst EXCEPT ![p] = lst[q], ![q] = lst[p]]

\* a swap that exchanges the ids only
swap_book_ids_only(st, index1, index2) ==
    [st EXCEPT !.valid_book_ids = SwapList(st.valid_book_ids, index1, index2)]

\* swap_book_items on the three lists of the dialog
swap_book_items(st, index1, index2) ==
    [valid_book_ids |-> SwapList(st.valid_book_ids, index1, index2),
     books |-> SwapList(st.books, index1, index2),
     titles |-> SwapList(st.titles, index1, index2)]

\* fetch_books_metadata: the ids of self.books_dict
FetchedIds(d, ids) ==
    { ids[k] : k \in { x \in 1..Len(ids) :
                         d[ids[x]].fetch = "ok" /\ d[ids[x]].mi.title # <<>> } }

\* organize_book_data: the ids of sorted_books that are in books_dict
organize_book_data(d, ids) ==
    Bind(detect_and_sort_books_by_volume(d, ids), LAMBDA sorted_books :
    Bind(FetchedIds(d, ids), LAMBDA in_dict :
         SelectSeq([k \in 1..Len(sorted_books) |-> sorted_books[k][1]],
                   LAMBDA book_id : book_id \in in_dict)))

\* BatchEditMetadataDialog.__init__ up to extract_base_title: the fields it
\* leaves, the error dialog it shows (None or Some(title)) and whether
\* setup_ui is reached
DialogInit(d, sel) ==
    LET empty == [book_ids |-> sel, books_dict |-> <<>>, valid_book_ids |-> <<>>,
                  books |-> <<>>, titles |-> <<>>, error |-> None, ui |-> FALSE]
        in_dict == FetchedIds(d, sel)
    IN IF sel = <<>> THEN [empty EXCEPT !.error = Some("no_selection")]
       ELSE IF in_dict = {} THEN [empty EXCEPT !.error = Some("no_books")]
       ELSE Bind(organize_book_data(d, sel), LAMBDA valid :
            IF valid = <<>>
            THEN [empty EXCEPT !.books_dict = [id \in in_dict |-> d[id].mi],
                               !.error = Some("data_error")]
            ELSE [book_ids |-> valid,
                  books_dict |-> [id \in in_dict |-> d[id].mi],
                  valid_book_ids |-> valid,
                  books |-> [k \in 1..Len(valid) |-> d[valid[k]].mi],
                  titles |-> [k \in 1..Len(valid) |-> d[valid[k]].mi.title],
                  error |-> None,
                  ui |-> TRUE])

\* hasattr(d, 'no_books_selected') in show_dialog: no method of the dialog
\* assigns the attribute
hasattr_no_books_selected == FALSE

-----------------------------------------------------------------------------
(* Values of the variables an operation does not use *)

VolIdle ==
    /\ title = <<>>
    /\ marker = [stem |-> <<>>, sep |-> <<>>, form |-> "none",
                 num |-> Num(<<>>, -1, "none"), tail |-> <<>>]
    /\ vres = Result(<<>>, None)
    /\ vpc = "idle"

LibraryIdle == db = <<>> /\ book_ids = <<>>

SortIdle == sorted = <<>> /\ spc = "idle"

NoFlags == [clear_tags |-> FALSE, clear_series |-> FALSE, clear_publisher |-> FALSE]

RenameIdle ==
    /\ new_title_base = <<>> /\ author = <<>> /\ volume_format = "number"
    /\ previews = <<>> /\ previewed = FALSE /\ flags = NoFlags
    /\ updated_count = 0 /\ writes = <<>> /\ rpc = "idle"

NumIdle == num_n = -1 /\ num_text = <<>> /\ num_val = -1 /\ npc = "idle"

LcsIdle ==
    /\ s1 = <<>> /\ s2 = <<>> /\ dp = <<>> /\ li = 0 /\ lj = 0
    /\ lcs_chars = <<>> /\ lcs = <<>> /\ lpc = "idle"

BaseIdle == titles = <<>> /\ base_result = <<>> /\ base_rerun = <<>> /\ bpc = "idle"

DlgIdle ==
    /\ selected_ids = <<>> /\ books_dict = <<>> /\ valid_book_ids = <<>>
    /\ books = <<>> /\ currentRow = -1 /\ dlg = "idle"
    /\ exec_called = FALSE /\ errors = <<>>

-----------------------------------------------------------------------------
(* SpecVol: the volume extractor applied to one title *)

InitVol ==
    /\ marker \in VolInputs
    /\ title = Compose(marker)
    /\ vres = Result(<<>>, None)
    /\ vpc = "ready"
    /\ LibraryIdle /\ SortIdle /\ RenameIdle
    /\ NumIdle /\ LcsIdle /\ BaseIdle /\ DlgIdle

ExtractVolume ==
    /\ vpc = "ready"
    /\ vres' = extract_volume_with_context(title)
    /\ vpc' = "done"
    /\ UNCHANGED <<title, marker, db, book_ids, sortVars, renameVars>>
    /\ UNCHANGED <<numVars, lcsVars, baseVars, dlgVars>>

NextVol == ExtractVolume

SpecVol == InitVol /\ [][NextVol]_vars

-----------------------------------------------------------------------------
(* SpecSort: detect_and_sort_books_by_volume on a small selection *)

\* largest selection that is sorted
MaxSortBooks == 3

\* titles of the books to sort, with the volume their marker denotes
\* (None: the title has no marker)
SortTitles ==
    { [text |-> <<"a", "di", "2", "juan">>, vol |-> Some(2)],
      [text |-> <<"a", "di", "1", "juan">>, vol |-> Some(1)],
      [text |-> <<"a">>, vol |-> None],
      [text |-> <<"a", " ", "I">>, vol |-> Some(1)],
      [text |-> <<"b", "di", "shi", "ce">>, vol |-> Some(10)] }

InitSort ==
    /\ \E n \in 0..MaxSortBooks :
          /\ book_ids = Ascending(n)
          /\ \E ts \in [1..n -> SortTitles] :
             \E fs \in [1..n -> {"ok", "none", "raise"}] :
                db = [id \in 1..n |-> Entry(fs[id], FALSE, OrigMi(id, ts[id].text))]
    /\ sorted = <<>>
    /\ spc = "ready"
    /\ VolIdle /\ RenameIdle
    /\ NumIdle /\ LcsIdle /\ BaseIdle /\ DlgIdle

DetectAndSort ==
    /\ spc = "ready"
    /\ sorted' = detect_and_sort_books_by_volume(db, book_ids)
    /\ spc' = "done"
    /\ UNCHANGED <<volVars, db, book_ids, renameVars>>
    /\ UNCHANGED <<numVars, lcsVars, baseVars, dlgVars>>

NextSort == DetectAndSort

SpecSort == InitSort /\ [][NextSort]_vars

-----------------------------------------------------------------------------
(* Spec: preview and rename of one selection *)

\* every selection size up to MaxBooks is tried, and the sizes of SizeSamples
MaxBooks == 3
\* the books with an id up to MaxFailIds may fail to be fetched or written
MaxFailIds == 1

\* sizes around the thresholds of the two digit computations
SizeSamples == {9, 10, 12, 99, 100}

Sizes == (0..MaxBooks) \cup SizeSamples

BaseTitles == { <<"hai", "zei">> }
Authors == { <<>>, <<" ">>, <<"a">>, <<" ", "a", "b", " ">> }
VolumeFormats == {"number", "chinese"}

RenameTitle(id) == <<"b", "di">> \o Str(id) \o <<"juan">>

Libraries(n) ==
    { [id \in 1..n |->
          LET o == IF id <= MaxFailIds THEN f[id] ELSE OkOutcome
          IN Entry(o.fetch, o.set_raises, OrigMi(id, RenameTitle(id)))] :
        f \in [1..Min2(n, MaxFailIds) -> Outcomes] }

Init ==
    /\ \E n \in Sizes :
          /\ book_ids \in {Ascending(n), Descending(n)}
          /\ db \in Libraries(n)
    /\ new_title_base \in BaseTitles
    /\ author \in Authors
    /\ volume_format \in VolumeFormats
    /\ previews = <<>> /\ previewed = FALSE /\ flags = NoFlags
    /\ updated_count = 0 /\ writes = <<>> /\ rpc = "ready"
    /\ VolIdle /\ SortIdle
    /\ NumIdle /\ LcsIdle /\ BaseIdle /\ DlgIdle

\* preview_metadata_changes(db, book_ids, new_title_base, author, volume_format)
Preview ==
    /\ rpc = "ready" /\ ~previewed
    /\ previews' = preview_metadata_changes(db, book_ids, new_title_base, author,
                                            volume_format)
    /\ previewed' = TRUE
    /\ UNCHANGED <<volVars, db, book_ids, sortVars, new_title_base, author,
                   volume_format, flags, updated_count, writes, rpc>>
    /\ UNCHANGED <<numVars, lcsVars, baseVars, dlgVars>>

\* batch_update_metadata(db, book_ids, new_title_base, author, clear_tags,
\*                       clear_series, clear_publisher, volume_format)
BatchUpdate ==
    /\ rpc = "ready"
    /\ \E ct \in BOOLEAN, cs \in BOOLEAN, cp \in BOOLEAN :
          LET fl == [clear_tags |-> ct, clear_series |-> cs, clear_publisher |-> cp]
              r == batch_update_metadata(db, book_ids, new_title_base, author, fl,
                                         volume_format)
          IN /\ flags' = fl
             /\ db' = r.db
             /\ updated_count' = r.updated_count
             /\ writes' = r.writes
    /\ rpc' = "done"
    /\ UNCHANGED <<volVars, book_ids, sortVars, new_title_base, author,
                   volume_format, previews, previewed>>
    /\ UNCHANGED <<numVars, lcsVars, baseVars, dlgVars>>

Next == Preview \/ BatchUpdate

Spec == Init /\ [][Next]_vars

-----------------------------------------------------------------------------
(* SpecBase: extract_base_title called twice on one list of titles *)

\* longest list of titles
MaxTitles == 3

\* "hai zei nian" stands for a three-character series name
BaseTitleSamples ==
    { <<"hai", "zei", "nian", " ", "0", "1">>,
      <<"hai", "zei", "nian", " ", "0", "2">>,
      <<"hai", "zei", "nian", " ", "0", "3">>,
      <<"hai", "zei", "nian", " ", "a", "b", " ", "0", "1">>,
      <<"hai", "zei", "nian", " ", "a", "b", " ", "0", "2">>,
      <<"hai", "zei", " ", "nian", "a", " ", "1">>,
      <<"nian", "a", " ", "hai", "zei", " ", "2">>,
      <<"a", "b", " ", "di", "1", "juan">>,
      <<"a", "b", " ", "di", "2", "juan">> }

InitBase ==
    /\ \E n \in 0..MaxTitles : titles \in [1..n -> BaseTitleSamples]
    /\ base_result = <<>> /\ base_rerun = <<>> /\ bpc = "ready"
    /\ VolIdle /\ LibraryIdle /\ SortIdle /\ RenameIdle
    /\ NumIdle /\ LcsIdle /\ DlgIdle

\* extract_base_title(titles), a first and a second time
ExtractBaseTitle ==
    /\ bpc \in {"ready", "once"}
    /\ \E r \in extract_base_title(titles) :
          IF bpc = "ready"
          THEN base_result' = r /\ base_rerun' = base_rerun /\ bpc' = "once"
          ELSE base_rerun' = r /\ base_result' = base_result /\ bpc' = "twice"
    /\ UNCHANGED <<volVars, db, book_ids, sortVars, renameVars>>
    /\ UNCHANGED <<numVars, lcsVars, titles, dlgVars>>

NextBase == ExtractBaseTitle

SpecBase == InitBase /\ [][NextBase]_vars

-----------------------------------------------------------------------------
(* SpecNum: the numeral converters.  A number is formatted by              *)
(* int_to_chinese and read back by chinese_to_int, or a Roman numeral is   *)
(* read by roman_to_int.                                                   *)

\* largest number formatted
MaxNumber == 120
\* longest Roman numeral of the exhaustive part of the inputs
MaxRomanLen == 3

RomanTable ==
    { [text |-> <<"I">>, val |-> 1], [text |-> <<"I", "V">>, val |-> 4],
      [text |-> <<"I", "X">>, val |-> 9], [text |-> <<"X", "L">>, val |-> 40],
      [text |-> <<"X", "C">>, val |-> 90], [text |-> <<"C", "M">>, val |-> 900],
      [text |-> <<"M", "C", "M", "X", "C", "I", "V">>, val |-> 1994] }

RomanInputs ==
    UNION { [1..n -> RomanUpper] : n \in 0..MaxRomanLen }
    \cup { r.text : r \in RomanTable }
    \cup { <<"i", "v">>, <<"x", "i", "v">>, <<"m", "c", "m", "x", "c", "i", "v">> }

InitNum ==
    /\ \/ /\ num_n \in 0..MaxNumber
          /\ num_text = <<>>
          /\ npc = "format"
       \/ /\ num_n = -1
          /\ num_text \in RomanInputs
          /\ npc = "roman"
    /\ num_val = -1
    /\ VolIdle /\ LibraryIdle /\ SortIdle /\ RenameIdle
    /\ LcsIdle /\ BaseIdle /\ DlgIdle

IntToChinese ==
    /\ npc = "format"
    /\ num_text' = int_to_chinese(num_n)
    /\ npc' = "chinese"
    /\ UNCHANGED <<num_n, num_val>>
    /\ UNCHANGED <<volVars, db, book_ids, sortVars, renameVars>>
    /\ UNCHANGED <<lcsVars, baseVars, dlgVars>>

ChineseToInt ==
    /\ npc = "chinese"
    /\ num_val' = chinese_to_int(num_text)
    /\ npc' = "done"
    /\ UNCHANGED <<num_n, num_text>>
    /\ UNCHANGED <<volVars, db, book_ids, sortVars, renameVars>>
    /\ UNCHANGED <<lcsVars, baseVars, dlgVars>>

RomanToInt ==
    /\ npc = "roman"
    /\ num_val' = roman_to_int(num_text)
    /\ npc' = "done"
    /\ UNCHANGED <<num_n, num_text>>
    /\ UNCHANGED <<volVars, db, book_ids, sortVars, renameVars>>
    /\ UNCHANGED <<lcsVars, baseVars, dlgVars>>

NextNum == IntToChinese \/ ChineseToInt \/ RomanToInt

SpecNum == InitNum /\ [][NextNum]_vars

-----------------------------------------------------------------------------
(* SpecLCS: longest_common_subsequence, one iteration of the backtracking  *)
(* loop per step; the table is filled before the first step.               *)

\* longest argument
MaxLcsLen == 3

LcsAlphabet == {"a", "b", "hai"}

LcsInputs == UNION { [1..n -> LcsAlphabet] : n \in 0..MaxLcsLen }

InitLCS ==
    /\ s1 \in LcsInputs /\ s2 \in LcsInputs
    /\ dp = DpTable(s1, s2)
    /\ li = Len(s1) /\ lj = Len(s2)
    /\ lcs_chars = <<>> /\ lcs = <<>> /\ lpc = "backtrack"
    /\ VolIdle /\ LibraryIdle /\ SortIdle /\ RenameIdle
    /\ NumIdle /\ BaseIdle /\ DlgIdle

\* the body of "while i > 0 and j > 0"
LcsBacktrack ==
    /\ lpc = "backtrack" /\ li > 0 /\ lj > 0
    /\ LET st == BacktrackStep(s1, s2, dp,
                               [i |-> li, j |-> lj, lcs_chars |-> lcs_chars])
       IN li' = st.i /\ lj' = st.j /\ lcs_chars' = st.lcs_chars
    /\ UNCHANGED <<s1, s2, dp, lcs, lpc>>
    /\ UNCHANGED <<volVars, db, book_ids, sortVars, renameVars>>
    /\ UNCHANGED <<numVars, baseVars, dlgVars>>

\* return ''.join(reversed(lcs_chars))
LcsReturn ==
    /\ lpc = "backtrack" /\ ~(li > 0 /\ lj > 0)
    /\ lcs' = Reverse(lcs_chars)
    /\ lpc' = "done"
    /\ UNCHANGED <<s1, s2, dp, li, lj, lcs_chars>>
    /\ UNCHANGED <<volVars, db, book_ids, sortVars, renameVars>>
    /\ UNCHANGED <<numVars, baseVars, dlgVars>>

NextLCS == LcsBacktrack \/ LcsReturn

SpecLCS == InitLCS /\ [][NextLCS]_vars

-----------------------------------------------------------------------------
(* SpecDlg: the plugin action opens the dialog on a selection; the user    *)
(* selects rows, moves books, previews, accepts or closes.  The preview    *)
(* window is modal: its list exists only until the next handler runs.      *)

\* largest selection the dialog is opened on
MaxDlgBooks == 3

DlgTitle(id) ==
    CASE id = 1 -> <<"a", "di", "2", "juan">>
      [] id = 2 -> <<"a", "di", "1", "juan">>
      [] id = 3 -> <<"a">>
      [] OTHER -> <<"a", "di">> \o Str(id) \o <<"juan">>

DlgLibraries(n) ==
    { [id \in 1..n |->
          LET o == IF id <= MaxFailIds THEN f[id] ELSE OkOutcome
          IN Entry(o.fetch, o.set_raises, OrigMi(id, DlgTitle(id)))] :
        f \in [1..Min2(n, MaxFailIds) -> Outcomes] }

\* what the checkboxes can show: all checked (the default) or none
CheckSamples == {TRUE, FALSE}

\* what the user types into the title field and the author box
TitleEdits == { <<>>, <<"hai", "zei", " ">> }
AuthorEdits == { <<>>, <<"a">> }

InitDlg ==
    /\ \E n \in 0..MaxDlgBooks :
          /\ db \in DlgLibraries(n)
          /\ selected_ids \in {Ascending(n), Descending(n)}
    /\ book_ids = <<>>
    /\ books_dict = <<>> /\ valid_book_ids = <<>> /\ books = <<>> /\ titles = <<>>
    /\ base_result = <<>> /\ base_rerun = <<>> /\ bpc = "idle"
    /\ currentRow = -1 /\ dlg = "none" /\ exec_called = FALSE /\ errors = <<>>
    /\ new_title_base = <<>> /\ author = <<>> /\ volume_format = "number"
    /\ previews = <<>> /\ previewed = FALSE /\ flags = NoFlags
    /\ updated_count = 0 /\ writes = <<>> /\ rpc = "ready"
    /\ VolIdle /\ SortIdle /\ NumIdle /\ LcsIdle

\* the variables no handler of the dialog touches
DlgFixed == <<volVars, sortVars, numVars, lcsVars, selected_ids, base_rerun, bpc,
              volume_format>>

\* the list of the preview window is gone once its handler has returned
PreviewGone == previews' = <<>> /\ previewed' = FALSE

\* BatchEditMetadataAction.show_dialog: d = BatchEditMetadataDialog(gui),
\* then d.exec_() unless d.no_books_selected is set
ShowDialog ==
    /\ dlg = "none"
    /\ \E init \in {DialogInit(db, selected_ids)} :
       LET shown == ~hasattr_no_books_selected
       IN /\ book_ids' = init.book_ids
          /\ books_dict' = init.books_dict
          /\ valid_book_ids' = init.valid_book_ids
          /\ books' = init.books
          /\ titles' = init.titles
          /\ errors' = IF init.error = None THEN errors
                       ELSE Append(errors, init.error[1])
          /\ base_result' \in (IF init.ui THEN extract_base_title(init.titles)
                               ELSE { <<>> })
          /\ exec_called' = shown
          /\ dlg' = IF ~shown THEN "closed" ELSE IF init.ui THEN "open" ELSE "blank"
    /\ currentRow' = -1
    /\ UNCHANGED <<db, renameVars, DlgFixed>>

\* the user clicks a row of books_list
SelectRow ==
    /\ dlg = "open"
    /\ \E row \in 0..(Len(books) - 1) : currentRow' = row
    /\ PreviewGone
    /\ UNCHANGED <<db, book_ids, books_dict, valid_book_ids, books, titles,
                   base_result, dlg, exec_called, errors, new_title_base, author,
                   flags, updated_count, writes, rpc, DlgFixed>>

\* move_book_up
MoveBookUp ==
    /\ dlg = "open"
    /\ LET current_row == currentRow
           st == swap_book_items([valid_book_ids |-> valid_book_ids,
                                  books |-> books, titles |-> titles],
                                 current_row, current_row - 1)
       IN IF current_row > 0
          THEN /\ valid_book_ids' = st.valid_book_ids
               /\ books' = st.books
               /\ titles' = st.titles
               /\ currentRow' = current_row - 1
          ELSE UNCHANGED <<valid_book_ids, books, titles, currentRow>>
    /\ PreviewGone
    /\ UNCHANGED <<db, book_ids, books_dict, base_result, dlg, exec_called, errors,
                   new_title_base, author, flags, updated_count, writes, rpc,
                   DlgFixed>>

\* move_book_down
MoveBookDown ==
    /\ dlg = "open"
    /\ LET current_row == currentRow
           st == swap_book_items([valid_book_ids |-> valid_book_ids,
                                  books |-> books, titles |-> titles],
                                 current_row, current_row + 1)
       IN IF current_row < Len(books) - 1
          THEN /\ valid_book_ids' = st.valid_book_ids
               /\ books' = st.books
               /\ titles' = st.titles
               /\ currentRow' = current_row + 1
          ELSE UNCHANGED <<valid_book_ids, books, titles, currentRow>>
    /\ PreviewGone
    /\ UNCHANGED <<db, book_ids, books_dict, base_result, dlg, exec_called, errors,
                   new_title_base, author, flags, updated_count, writes, rpc,
                   DlgFixed>>

\* preview_changes
PreviewChanges ==
    /\ dlg = "open"
    /\ \E text \in TitleEdits, combo \in AuthorEdits :
          LET base == Strip(text)
              auth == Strip(combo)
          IN IF base = <<>>
             THEN PreviewGone /\ UNCHANGED <<new_title_base, author>>
             ELSE /\ new_title_base' = base
                  /\ author' = auth
                  /\ previews' = preview_metadata_changes(db, valid_book_ids, base,
                                                          auth, "number")
                  /\ previewed' = TRUE
    /\ UNCHANGED <<db, book_ids, books_dict, valid_book_ids, books, titles,
                   base_result, currentRow, dlg, exec_called, errors, flags,
                   updated_count, writes, rpc, DlgFixed>>

\* accept
Accept ==
    /\ dlg = "open"
    /\ book_ids' = valid_book_ids
    /\ PreviewGone
    /\ \E text \in TitleEdits, combo \in AuthorEdits, reply \in {"Yes", "No"},
          checked \in CheckSamples :
          \E r \in {batch_update_metadata(db, valid_book_ids, Strip(text), Strip(combo),
                                          [clear_tags |-> checked,
                                           clear_series |-> checked,
                                           clear_publisher |-> checked], "number")} :
          LET base == Strip(text)
              auth == Strip(combo)
              fl == [clear_tags |-> checked, clear_series |-> checked,
                     clear_publisher |-> checked]
          IN IF Len(valid_book_ids) # Len(books)
             THEN /\ errors' = Append(errors, "data_error")
                  /\ UNCHANGED <<db, new_title_base, author, flags, updated_count,
                                 writes, rpc, dlg>>
             ELSE IF base = <<>> \/ (auth = <<>> /\ reply = "No")
             THEN UNCHANGED <<db, new_title_base, author, flags, updated_count,
                              writes, rpc, dlg, errors>>
             ELSE /\ new_title_base' = base
                  /\ author' = auth
                  /\ flags' = fl
                  /\ db' = r.db
                  /\ updated_count' = r.updated_count
                  /\ writes' = r.writes
                  /\ rpc' = "done"
                  /\ dlg' = "closed"
                  /\ UNCHANGED errors
    /\ UNCHANGED <<books_dict, valid_book_ids, books, titles, base_result,
                   currentRow, exec_called, DlgFixed>>

\* the cancel button, or the window is closed
Close ==
    /\ dlg \in {"open", "blank"}
    /\ dlg' = "closed"
    /\ PreviewGone
    /\ UNCHANGED <<db, book_ids, books_dict, valid_book_ids, books, titles,
                   base_result, currentRow, exec_called, errors, new_title_base,
                   author, flags, updated_count, writes, rpc, DlgFixed>>

NextDlg ==
    \/ ShowDialog \/ SelectRow \/ MoveBookUp \/ MoveBookDown
    \/ PreviewChanges \/ Accept \/ Close

SpecDlg == InitDlg /\ [][NextDlg]_vars

-----------------------------------------------------------------------------
(* Vocabulary of the claims about the volume extractor: what it means for  *)
(* a rule to match a title at position i, stated over the positions of the *)
(* title.                                                                  *)

AllIn(t, a, b, cls) == \A k \in a..b : t[k] \in cls

SetMax(S) == CHOOSE x \in S : \A y \in S : y <= x
SetMin(S) == CHOOSE x \in S : \A y \in S : x <= y

\* x without its trailing characters of S
TrimTrailing(x, S) == Prefix(x, SetMax({0} \cup {k \in 1..Len(x) : x[k] \notin S}))

EndsWithOptKeyword(t, b) ==
    b = Len(t) \/ (b + 1 = Len(t) /\ t[b + 1] \in VOLUME_KEYWORDS)

\* di <numeral characters> <keyword> ...
KeywordRuleAt(t, i) ==
    /\ t[i] = "di"
    /\ \E j \in (i + 1)..(Len(t) - 1) :
          AllIn(t, i + 1, j, NumClass) /\ t[j + 1] \in VOLUME_KEYWORDS

\* <separators> <numeral characters> [keyword] at the end
SeparatorRuleAt(t, i) ==
    \E a \in i..Len(t) : \E b \in (a + 1)..Len(t) :
        /\ AllIn(t, i, a, {"-", "_", " "})
        /\ AllIn(t, a + 1, b, NumClassI)
        /\ EndsWithOptKeyword(t, b)

BracketedAt(t, i, open, close) ==
    /\ t[i] \in open
    /\ t[Len(t)] \in close
    /\ \E b \in (i + 1)..(Len(t) - 1) :
          /\ AllIn(t, i + 1, b, NumClassI)
          /\ EndsWithOptKeyword(Prefix(t, Len(t) - 1), b)

\* v <numeral characters without Roman> at the end
VRuleAt(t, i) ==
    t[i] \in {"v", "V"} /\ i < Len(t) /\ AllIn(t, i + 1, Len(t), NumClassNoRoman)

\* di <numeral characters without Roman> bu fen at the end
PartRuleAt(t, i) ==
    /\ t[i] = "di" /\ i + 3 <= Len(t)
    /\ AllIn(t, i + 1, Len(t) - 2, NumClassNoRoman)
    /\ t[Len(t) - 1] = "bu" /\ t[Len(t)] = "fen"

\* the start positions of each rule, in the order the rules are tried
RuleStarts(t) ==
    << {i \in 1..Len(t) : KeywordRuleAt(t, i)},
       {i \in 1..Len(t) : SeparatorRuleAt(t, i)},
       {i \in 1..Len(t) : BracketedAt(t, i, {"(", "fw("}, {")", "fw)"})},
       {i \in 1..Len(t) : BracketedAt(t, i, {"lb", "lt"}, {"rb", "rt"})},
       {i \in 1..Len(t) : VRuleAt(t, i)},
       {i \in 1..Len(t) : PartRuleAt(t, i)} >>

MarkerRuleMatches(t) == \E r \in 1..6 : RuleStarts(t)[r] # {}

\* the trailing run of decimal digits of t, as a position (Len(t)+1: none)
DigitRunStart(t) == SetMin({i \in 1..(Len(t) + 1) : AllIn(t, i, Len(t), Digits)})
DigitRunLen(t) == Len(t) + 1 - DigitRunStart(t)

BareDigitRuleMatches(t) == DigitRunLen(t) >= 1 /\ DigitRunLen(t) <= MaxBareDigits

AnyRuleMatches(t) == MarkerRuleMatches(t) \/ BareDigitRuleMatches(t)

\* where the match of the first matching rule starts
MatchStart(t) ==
    IF MarkerRuleMatches(t)
    THEN SetMin(RuleStarts(t)[SetMin({r \in 1..6 : RuleStarts(t)[r] # {}})])
    ELSE DigitRunStart(t)

IsPrefixOf(p, t) == Len(p) <= Len(t) /\ p = Prefix(t, Len(p))

\* the separator set the specification names, and the one the code strips
SpecSeparators == {" ", "-", "_", "mid", "~", "fwtilde", ":", "fwcolon", "kmid"}
CodeSeparators == {" ", "-", "_", "mid", "kmid"}

-----------------------------------------------------------------------------
(* Claims C1 - C3: the volume extractor *)

\* C1: for every title that contains an explicit marker di<n>juan where n is
\* an Arabic, Chinese or Roman numeral, the returned volume is the integer
\* the numeral denotes.
C1_VolumeIsNumeralValue ==
    (vpc = "done" /\ marker.form = "di_juan"
        /\ marker.num.sys \in {"arabic", "chinese", "roman"})
    => vres.volume = Some(marker.num.val)

\* C2 as stated: whenever a rule matches, the simplified title is the part
\* of the title before the match with every trailing character of the nine
\* separators of the specification removed, and it is a prefix of the title.
C2_StripsSpecSeparators ==
    (vpc = "done" /\ AnyRuleMatches(title))
    => /\ vres.volume # None
       /\ vres.title = TrimTrailing(Prefix(title, MatchStart(title) - 1), SpecSeparators)
       /\ IsPrefixOf(vres.title, title)

\* C2 amended: whenever a rule matches, the simplified title is the part of
\* the title before the match with every trailing character of
\* {space, -, _, U+00B7, U+30FB} removed, and it is a prefix of the title.
C2_StripsCodeSeparators ==
    (vpc = "done" /\ AnyRuleMatches(title))
    => /\ vres.volume # None
       /\ vres.title = TrimTrailing(Prefix(title, MatchStart(title) - 1), CodeSeparators)
       /\ IsPrefixOf(vres.title, title)

\* C2 witness: a rule matched and separators were removed from the end of
\* the part before the match
C2_Witness ==
    /\ vpc = "done" /\ AnyRuleMatches(title) /\ vres.volume # None
    /\ Len(vres.title) >= 1
    /\ Len(vres.title) + 2 < MatchStart(title)

\* C3: when none of the keyword, separator, bracket, v-prefix or part rules
\* matches, a volume is returned only if the title ends in a run of at most
\* four decimal digits (the volume is the value of the run); otherwise the
\* result is the original title and no volume; a title that starts with
\* the year 2024 and goes on with text yields the original title and no
\* volume.
C3_BareDigitsGuard ==
    (vpc = "done" /\ ~MarkerRuleMatches(title))
    => /\ IF DigitRunLen(title) >= 1 /\ DigitRunLen(title) <= 4
          THEN vres.volume =
                   Some(DecimalValue(SubSeq(title, DigitRunStart(title), Len(title))))
          ELSE vres = Result(title, None)
       /\ title = <<"2", "0", "2", "4", "nian", "a">> => vres = Result(title, None)

\* C3 witness: no marker rule matches a title that ends in more than four
\* digits, and the title comes back unchanged with no volume
C3_Witness ==
    /\ vpc = "done" /\ ~MarkerRuleMatches(title)
    /\ DigitRunLen(title) > 4
    /\ vres = Result(title, None)

-----------------------------------------------------------------------------
(* Vocabulary of the claims about sorting and renaming *)

\* the volume the marker of a sort title denotes
TitleVolume(text) == (CHOOSE r \in SortTitles : r.text = text).vol

\* the volume claim C4 gives a book: 0 without a marker or without metadata
ClaimedVolume(id) ==
    IF db[id].fetch = "ok" /\ TitleVolume(db[id].mi.title) # None
    THEN TitleVolume(db[id].mi.title)[1]
    ELSE 0

\* 1-based position of a book in the input sequence (the ids are distinct)
PosOf(id) == CHOOSE i \in 1..Len(book_ids) : book_ids[i] = id

\* the metadata the book had before the rename
Original(id) == OrigMi(id, RenameTitle(id))

\* the part of a new title behind the base title
SuffixOf(t) == SubSeq(t, Len(new_title_base) + 1, Len(t))

HasBase(t) == IsPrefixOf(new_title_base, t)

OneDigit(i) == <<DigitChars[i + 1]>>
TwoDigits(i) == <<DigitChars[(i \div 10) + 1], DigitChars[(i % 10) + 1]>>

\* the width claim C6 gives a batch of n items
ClaimedWidth(n) == IF n < 10 THEN 1 ELSE IF n < 100 THEN 2 ELSE 3

IsBlank(x) == AllIn(x, 1, Len(x), Whitespace)

\* x without leading and trailing whitespace
TrimBoth(x) ==
    LET keep == {k \in 1..Len(x) : x[k] \notin Whitespace}
    IN IF keep = {} THEN <<>> ELSE SubSeq(x, SetMin(keep), SetMax(keep))

\* every book of the selection can be fetched and written
AllFetchedAndWritten ==
    \A id \in DOMAIN db : db[id].fetch = "ok" /\ ~db[id].set_raises

\* the sequence number a new title carries
NumberOf(t) ==
    IF volume_format = "chinese"
    THEN parse_volume_number(SubSeq(SuffixOf(t), 2, Len(SuffixOf(t)) - 1))
    ELSE Some(DecimalValue(SuffixOf(t)))

-----------------------------------------------------------------------------
(* Claims C4 - C10 *)

\* C4: detect_and_sort_books_by_volume returns the input items ordered by
\* ascending volume; an item without a recognisable volume, or whose
\* metadata fetch fails, counts as volume 0; items of equal volume keep
\* their input order.
C4_SortedByVolume ==
    spc = "done"
    => /\ Len(sorted) = Len(book_ids)
       /\ \A i \in 1..Len(book_ids) : \E k \in 1..Len(sorted) : sorted[k][1] = book_ids[i]
       /\ \A k \in 1..Len(sorted) : sorted[k][2] = ClaimedVolume(sorted[k][1])
       /\ \A j, k \in 1..Len(sorted) :
             j < k => /\ sorted[j][2] <= sorted[k][2]
                      /\ sorted[j][2] = sorted[k][2]
                            => PosOf(sorted[j][1]) < PosOf(sorted[k][1])

\* C5 as stated: with the numeric style a batch of 3 items gets the titles
\* base+"01", base+"02", base+"03" and a batch of 12 items gets "01" .. "12",
\* from batch_update_metadata and from preview_metadata_changes.
C5_TwoDigitsForThree ==
    volume_format = "number"
    => /\ (rpc = "done" /\ Len(book_ids) \in {3, 12})
            => \A k \in 1..Len(writes) :
                  writes[k].mi.title =
                      new_title_base \o TwoDigits(PosOf(writes[k].book_id))
       /\ (previewed /\ Len(previews) \in {3, 12})
            => \A k \in 1..Len(previews) :
                  previews[k].new_title = new_title_base \o TwoDigits(k)

\* C5 amended: with the numeric style a batch of 3 items gets the titles
\* base+"1", base+"2", base+"3" and a batch of 12 items gets "01" .. "12",
\* from batch_update_metadata and from preview_metadata_changes.
C5_OneDigitForThree ==
    volume_format = "number"
    => /\ (rpc = "done" /\ Len(book_ids) = 3)
            => \A k \in 1..Len(writes) :
                  writes[k].mi.title =
                      new_title_base \o OneDigit(PosOf(writes[k].book_id))
       /\ (rpc = "done" /\ Len(book_ids) = 12)
            => \A k \in 1..Len(writes) :
                  writes[k].mi.title =
                      new_title_base \o TwoDigits(PosOf(writes[k].book_id))
       /\ (previewed /\ Len(previews) = 3)
            => \A k \in 1..Len(previews) :
                  previews[k].new_title = new_title_base \o OneDigit(k)
       /\ (previewed /\ Len(previews) = 12)
            => \A k \in 1..Len(previews) :
                  previews[k].new_title = new_title_base \o TwoDigits(k)

\* C5 witness: three books were previewed and renamed with the numeric style
C5_Witness ==
    /\ volume_format = "number" /\ rpc = "done" /\ previewed
    /\ Len(book_ids) = 3 /\ Len(writes) = 3 /\ Len(previews) = 3

\* C6: with the numeric style every index of a batch is zero-padded to a
\* width that depends only on the size of the batch (1 below 10 items,
\* 2 below 100, 3 below 1000), so all suffixes of a batch are equally long.
\* The batch is the id sequence for batch_update_metadata and the list of
\* fetched books for preview_metadata_changes.
C6_WidthFromBatchSize ==
    volume_format = "number"
    => /\ (rpc = "done" /\ Len(book_ids) < 1000)
            => \A k \in 1..Len(writes) :
                  LET t == writes[k].mi.title
                  IN /\ HasBase(t)
                     /\ Len(SuffixOf(t)) = ClaimedWidth(Len(book_ids))
                     /\ AllIn(SuffixOf(t), 1, Len(SuffixOf(t)), Digits)
                     /\ DecimalValue(SuffixOf(t)) = PosOf(writes[k].book_id)
       /\ (previewed /\ Len(previews) < 1000)
            => \A k \in 1..Len(previews) :
                  LET t == previews[k].new_title
                  IN /\ HasBase(t)
                     /\ Len(SuffixOf(t)) = ClaimedWidth(Len(previews))
                     /\ AllIn(SuffixOf(t), 1, Len(SuffixOf(t)), Digits)
                     /\ DecimalValue(SuffixOf(t)) = k

\* C6 witness: a batch of at least 100 books was previewed and renamed with
\* three-digit suffixes
C6_Witness ==
    /\ volume_format = "number" /\ rpc = "done" /\ previewed
    /\ Len(book_ids) >= 100 /\ Len(previews) >= 100 /\ Len(writes) >= 1
    /\ Len(SuffixOf(writes[1].mi.title)) = 3
    /\ Len(SuffixOf(previews[1].new_title)) = 3

\* C7: for the same library, ids, base title, author and style the new_title
\* that preview_metadata_changes reports for a book is the title that
\* batch_update_metadata writes for it, also when some metadata cannot be
\* fetched; and preview_metadata_changes does not write to the library.
C7_PreviewEqualsApply ==
    /\ (previewed /\ rpc = "done")
         => \A j \in 1..Len(previews) : \A k \in 1..Len(writes) :
               previews[j].book_id = writes[k].book_id
                  => previews[j].new_title = writes[k].mi.title
    /\ (previewed /\ rpc = "ready")
         => \A id \in DOMAIN db : db[id].mi = Original(id)

C9_ClearOptions ==
    rpc = "done"
    => \A k \in 1..Len(writes) :
          LET w == writes[k]
              o == Original(w.book_id)
          IN /\ w.mi.publisher = IF flags.clear_publisher THEN <<>> ELSE o.publisher
             /\ w.mi.tags = IF flags.clear_tags THEN <<>> ELSE o.tags
             /\ w.mi.series = IF flags.clear_series THEN <<>> ELSE o.series
             /\ ~flags.clear_series => w.mi.series_index = o.series_index

\* the body of C10: one result per input id, in input order, numbered by
\* position, and the count is the number of input ids
OneResultPerItem ==
    /\ rpc = "done"
         => /\ updated_count = Len(book_ids)
            /\ Len(writes) = Len(book_ids)
            /\ \A i \in 1..Len(writes) :
                  /\ i <= Len(book_ids) => writes[i].book_id = book_ids[i]
                  /\ HasBase(writes[i].mi.title)
                  /\ NumberOf(writes[i].mi.title) = Some(i)
    /\ previewed
         => /\ Len(previews) = Len(book_ids)
            /\ \A i \in 1..Len(previews) :
                  /\ i <= Len(book_ids) => previews[i].book_id = book_ids[i]
                  /\ previews[i].index = i
                  /\ HasBase(previews[i].new_title)
                  /\ NumberOf(previews[i].new_title) = Some(i)

-----------------------------------------------------------------------------
(* Claims C11 - C12: the base title *)

\* what a title simplifies to after volume stripping
SimplifiedOf(t) == Strip(extract_volume_with_context(t).title)

\* C11: extract_base_title is deterministic: two calls with the same list of
\* titles return the same base title, also when the common-word strategy
\* finds several common words of equal length.
C11_SameBaseTitleEveryRun == bpc = "twice" => base_rerun = base_result

\* C12: if every title of a list of two or more simplifies to the same string
\* S after volume stripping, extract_base_title returns S in full, also when
\* S contains a separator character; the three titles "hai zei nian 01",
\* "... 02", "... 03" give "hai zei nian".
C12_ReturnsSharedSimplifiedTitle ==
    (bpc # "ready" /\ Len(titles) >= 2)
    => /\ (\A k \in 1..Len(titles) : SimplifiedOf(titles[k]) = SimplifiedOf(titles[1]))
            => base_result = SimplifiedOf(titles[1])
       /\ titles = << <<"hai", "zei", "nian", " ", "0", "1">>,
                      <<"hai", "zei", "nian", " ", "0", "2">>,
                      <<"hai", "zei", "nian", " ", "0", "3">> >>
            => base_result = <<"hai", "zei", "nian">>

-----------------------------------------------------------------------------
(* Claims C13 - C14: the numeral converters *)

\* C13: chinese_to_int(int_to_chinese(n)) = n for every n with 0 <= n <= 99.
C13_ChineseRoundTrip ==
    (npc = "done" /\ num_n >= 0 /\ num_n <= 99) => num_val = num_n

\* C13 witness: 99 was formatted as "jiu shi jiu" and read back
C13_Witness ==
    /\ npc = "done" /\ num_n = 99
    /\ num_text = <<"jiu", "shi", "jiu">> /\ num_val = 99

\* the value of a Roman symbol in either case
SymbolValue(c) ==
    CASE c \in {"I", "i"} -> 1 [] c \in {"V", "v"} -> 5 [] c \in {"X", "x"} -> 10
      [] c \in {"L", "l"} -> 50 [] c \in {"C", "c"} -> 100 [] c \in {"D", "d"} -> 500
      [] c \in {"M", "m"} -> 1000

\* the signed contribution of the symbol at position k: negative when the
\* symbol to its right is larger
Contribution(r, k) ==
    IF k < Len(r) /\ SymbolValue(r[k]) < SymbolValue(r[k + 1])
    THEN 0 - SymbolValue(r[k])
    ELSE SymbolValue(r[k])

RECURSIVE SumContributions(_, _)
SumContributions(r, k) ==
    IF k > Len(r) THEN 0 ELSE Contribution(r, k) + SumContributions(r, k + 1)

\* C14: roman_to_int adds the value of every symbol, except that a symbol
\* smaller than the symbol to its right is subtracted, and it agrees with the
\* table I=1, IV=4, IX=9, XL=40, XC=90, CM=900, MCMXCIV=1994.
C14_RomanSubtractive ==
    (npc = "done" /\ num_n = -1)
    => /\ num_val = SumContributions(num_text, 1)
       /\ \A r \in RomanTable : num_text = r.text => num_val = r.val

\* C14 witness: MCMXCIV was read as 1994
C14_Witness ==
    /\ npc = "done" /\ num_n = -1
    /\ num_text = <<"M", "C", "M", "X", "C", "I", "V">> /\ num_val = 1994

-----------------------------------------------------------------------------
(* Claim C15: unparseable numerals *)

\* C15: when the string between "di" and the keyword is matched by the
\* pattern but is no numeral of any system (a mixed string such as "3X"),
\* extract_volume_with_context reports no volume for the title.
C15_UnparseableIsNoVolume ==
    (vpc = "done" /\ marker.form \in {"di_juan", "di_ce"} /\ marker.num.sys = "mixed")
    => vres.volume = None

-----------------------------------------------------------------------------
(* Claim C16: the backtracking of longest_common_subsequence *)

InLoop == lpc = "backtrack" /\ li > 0 /\ lj > 0

\* the moves of one iteration
TakeBoth ==
    li' = li - 1 /\ lj' = lj - 1 /\ lcs_chars' = Append(lcs_chars, s1[li])
StepFirst == li' = li - 1 /\ lj' = lj /\ lcs_chars' = lcs_chars
StepSecond == li' = li /\ lj' = lj - 1 /\ lcs_chars' = lcs_chars

\* what the iteration does when the neighbouring cells differ or the
\* characters are equal
UntiedStep ==
    /\ s1[li] = s2[lj] => TakeBoth
    /\ (s1[li] # s2[lj] /\ dp[li - 1][lj] > dp[li][lj - 1]) => StepFirst
    /\ (s1[li] # s2[lj] /\ dp[li - 1][lj] < dp[li][lj - 1]) => StepSecond

Tied == s1[li] # s2[lj] /\ dp[li - 1][lj] = dp[li][lj - 1]

\* C16 as stated: an iteration appends the character when the two current
\* characters are equal, otherwise steps toward the larger neighbouring cell,
\* and when the two cells are equal it decrements the first string's index.
C16_TieDecrementsFirst ==
    [][InLoop => (UntiedStep /\ (Tied => StepFirst))]_vars

\* C16 amended: an iteration appends the character when the two current
\* characters are equal, otherwise steps toward the larger neighbouring cell,
\* and when the two cells are equal it decrements the second string's index.
C16_TieDecrementsSecond ==
    [][InLoop => (UntiedStep /\ (Tied => StepSecond))]_vars

\* C16 witness: for "ab" and "ba" the first iteration is a tie; the call
\* returned "b", which the step to the second string's previous character
\* gives (the other step gives "a")
C16_Witness ==
    /\ lpc = "done" /\ s1 = <<"a", "b">> /\ s2 = <<"b", "a">>
    /\ dp[1][2] = dp[2][1]
    /\ lcs = <<"b">>

-----------------------------------------------------------------------------
(* Claim C17: failures inside batch_update_metadata *)

\* get_metadata returns the book and set_metadata does not raise
Succeeds(id) == db[id].fetch = "ok" /\ ~db[id].set_raises

\* C17: a failure on one item (metadata missing, or an exception while
\* reading or writing) does not stop batch_update_metadata: every other item
\* is written, in input order and with the sequence number of its position
\* in the input, nothing is written for the failed item, and the returned
\* count is the number of items whose set_metadata succeeded.
C17_FailureDoesNotStopBatch ==
    rpc = "done"
    => /\ [k \in 1..Len(writes) |-> writes[k].book_id]
             = SelectSeq(book_ids, LAMBDA id : Succeeds(id))
       /\ \A k \in 1..Len(writes) :
             /\ HasBase(writes[k].mi.title)
             /\ NumberOf(writes[k].mi.title) = Some(PosOf(writes[k].book_id))
             /\ db[writes[k].book_id].mi = writes[k].mi
       /\ \A k \in 1..Len(book_ids) :
             ~Succeeds(book_ids[k]) => db[book_ids[k]].mi = Original(book_ids[k])
       /\ updated_count = Cardinality({k \in 1..Len(book_ids) : Succeeds(book_ids[k])})

\* C17 witness: the first of at least three books failed and the second book
\* was written with the number 2
C17_Witness ==
    /\ rpc = "done" /\ Len(book_ids) >= 3
    /\ ~Succeeds(book_ids[1])
    /\ updated_count = Len(book_ids) - 1
    /\ writes[1].book_id = book_ids[2]
    /\ NumberOf(writes[1].mi.title) = Some(2)

-----------------------------------------------------------------------------
(* Claims C18 - C20: the dialog *)

\* C18: the dialog is executed only when at least one book is selected; with
\* an empty selection show_dialog reports the error and never calls exec_.
C18_ExecOnlyWithSelection ==
    /\ exec_called => selected_ids # <<>>
    /\ (dlg # "none" /\ selected_ids = <<>>) => errors = <<"no_selection">>

\* the list lst with the rows p and q (0-based) exchanged
Exchanged(lst, p, q) == [lst EXCEPT ![p + 1] = lst[q + 1], ![q + 1] = lst[p + 1]]

\* C19: a click on move-up or move-down leaves the book order unchanged or
\* swaps the selected row with its immediate neighbour; with no row selected
\* (currentRow = -1) the order does not change, and no click exchanges two
\* rows that are not adjacent.
C19_MovesSwapNeighbours ==
    [][dlg = "open"
         => \/ valid_book_ids' = valid_book_ids
            \/ /\ currentRow >= 0
               /\ \E row \in {currentRow - 1, currentRow + 1} :
                     /\ row >= 0 /\ row < Len(valid_book_ids)
                     /\ valid_book_ids' = Exchanged(valid_book_ids, currentRow, row)]_vars

\* the 1-based row the dialog shows a book at (the ids are distinct)
RowOf(id) == CHOOSE k \in 1..Len(valid_book_ids) : valid_book_ids[k] = id

\* C20: after initialisation and after any sequence of move-up and move-down
\* clicks, valid_book_ids, books and titles have the same length, are aligned
\* by index and are a permutation of the books the dialog loaded; preview and
\* accept number the books in the displayed order, the book at row i getting
\* the number i.
C20_ListsAlignedAndNumbered ==
    dlg # "none"
    => /\ Len(books) = Len(valid_book_ids) /\ Len(titles) = Len(valid_book_ids)
       /\ \A k \in 1..Len(valid_book_ids) :
             /\ valid_book_ids[k] \in DOMAIN books_dict
             /\ books[k] = books_dict[valid_book_ids[k]]
             /\ titles[k] = books_dict[valid_book_ids[k]].title
       /\ \A x, y \in 1..Len(valid_book_ids) :
             x # y => valid_book_ids[x] # valid_book_ids[y]
       /\ valid_book_ids # <<>>
            => {valid_book_ids[k] : k \in 1..Len(valid_book_ids)} = DOMAIN books_dict
       /\ previewed
            => /\ Len(previews) = Len(valid_book_ids)
               /\ \A k \in 1..Len(previews) :
                     /\ previews[k].book_id = valid_book_ids[k]
                     /\ previews[k].index = k
                     /\ HasBase(previews[k].new_title)
                     /\ NumberOf(previews[k].new_title) = Some(k)
       /\ rpc = "done"
            => /\ book_ids = valid_book_ids
               /\ \A k \in 1..Len(valid_book_ids) :
                     ~db[valid_book_ids[k]].set_raises
                        => \E w \in 1..Len(writes) : writes[w].book_id = valid_book_ids[k]
               /\ \A w \in 1..Len(writes) :
                     /\ HasBase(writes[w].mi.title)
                     /\ NumberOf(writes[w].mi.title) = Some(RowOf(writes[w].book_id))

\* C20 witness: three books, loaded in the order 3, 2, 1 of their volumes,
\* were moved into the order 1, 2, 3 and renamed in that order
C20_Witness ==
    /\ rpc = "done" /\ dlg = "closed"
    /\ selected_ids = <<1, 2, 3>> /\ valid_book_ids = <<1, 2, 3>>
    /\ titles = <<DlgTitle(1), DlgTitle(2), DlgTitle(3)>>
    /\ Len(writes) = 3
    /\ writes[3].book_id = 3 /\ NumberOf(writes[3].mi.title) = Some(3)

====
